---- MODULE Spec2Model ----
(***************************************************************************)
(* Model of the application configuration engine of                        *)
(* src/lib/rust/ensogl/pack/js/src/runner/config.ts: Option (typed leaf   *)
(* with load), Group (merge, load), the default `options` tree, and Config *)
(* (resolve, resolveFromObjectInternal, finalize).                         *)
(*                                                                         *)
(* JavaScript values are records [ty, b, s]: ty is the result of typeof,   *)
(* b the boolean payload, s the text payload. A number is identified by    *)
(* the text String(n) gives for it ("3.14", "300", "Infinity", "NaN").     *)
(* Objects (Option, Group) live in stores indexed by object identity, so   *)
(* that two references to one object are visible as such.                  *)
(***************************************************************************)
EXTENDS Naturals, Sequences, FiniteSets, TLC

VARIABLES
    store,      \* Option objects: identity -> fields
    groups,     \* Group objects: identity -> [options, groups] reference maps
    lastCall,   \* the most recent call and a digest of its arguments
    returned,   \* what the most recent resolve returned
    logged,     \* logger.error records emitted by the most recent call
    folded,     \* allOverrides, the tree the most recent call folded, if any
    configs     \* Config objects: identity -> the tree this.options refers to

vars == <<store, groups, lastCall, returned, logged, folded, configs>>

----------------------------------------------------------------------------
(* JavaScript values *)

Str(t)  == [ty |-> "string",  b |-> FALSE, s |-> t]
Bool(v) == [ty |-> "boolean", b |-> v,     s |-> ""]
Num(t)  == [ty |-> "number",  b |-> FALSE, s |-> t]

NaN == Num("NaN")

DEFAULT_ENTRY_POINT == "ide"

(* parseBoolean: booleans pass, eight strings map, anything else is null.  *)
(* The result is [null, b]. *)
parseBoolean(value) ==
    CASE value = Bool(TRUE)       -> [null |-> FALSE, b |-> TRUE]
      [] value = Bool(FALSE)      -> [null |-> FALSE, b |-> FALSE]
      [] value = Str("true")      -> [null |-> FALSE, b |-> TRUE]
      [] value = Str("false")     -> [null |-> FALSE, b |-> FALSE]
      [] value = Str("enabled")   -> [null |-> FALSE, b |-> TRUE]
      [] value = Str("disabled")  -> [null |-> FALSE, b |-> FALSE]
      [] value = Str("yes")       -> [null |-> FALSE, b |-> TRUE]
      [] value = Str("no")        -> [null |-> FALSE, b |-> FALSE]
      [] value = Str("1")         -> [null |-> FALSE, b |-> TRUE]
      [] value = Str("0")         -> [null |-> FALSE, b |-> FALSE]
      [] OTHER                    -> [null |-> TRUE,  b |-> FALSE]

(* Number(input) of JavaScript on the inputs the model draws: a decimal    *)
(* literal gives that number, the empty string gives 0, "Infinity" and     *)
(* "-Infinity" give the infinities, true/false give 1/0, other text NaN.   *)
Number(input) ==
    CASE input = Str("3.14")      -> Num("3.14")
      [] input = Str("1")         -> Num("1")
      [] input = Str("0")         -> Num("0")
      [] input = Str("")          -> Num("0")
      [] input = Str("Infinity")  -> Num("Infinity")
      [] input = Str("-Infinity") -> Num("-Infinity")
      [] input = Bool(TRUE)       -> Num("1")
      [] input = Bool(FALSE)      -> Num("0")
      [] input.ty = "number"      -> input
      [] OTHER                    -> NaN

isNaN(n) == n = NaN

(* String(input) of JavaScript. *)
String(input) ==
    CASE input.ty = "string"  -> input
      [] input.ty = "boolean" -> Str(IF input.b THEN "true" ELSE "false")
      [] OTHER                -> Str(input.s)

----------------------------------------------------------------------------
(* Option *)

(* new Option(cfg): the constructor. The description texts are left out;   *)
(* nothing reads them. *)
Option(cfg) ==
    [name      |-> "uninitialized",
     group     |-> "uninitialized",
     default   |-> cfg.default,
     value     |-> cfg.default,
     type      |-> cfg.type,
     setByUser |-> FALSE,
     hidden    |-> FALSE,
     primary   |-> cfg.primary]

qualifiedName(opt) ==
    IF opt.group # "" /\ opt.group # opt.name
    THEN opt.group \o "." \o opt.name
    ELSE opt.name

(* The record logger.error receives from printValueUpdateError: the text   *)
(* names the qualified name, the declared type, the input and the default. *)
printValueUpdateError(opt, input) ==
    [name     |-> qualifiedName(opt),
     expected |-> opt.type,
     got      |-> input,
     using    |-> String(opt.default)]

(* load whose string branch stores the text and leaves setByUser alone *)
loadStringUnmarked(opt, input) ==
    IF opt.value.ty = "boolean"
    THEN LET newVal == parseBoolean(input)
         IN  IF newVal.null
             THEN [opt |-> opt, log |-> <<printValueUpdateError(opt, input)>>]
             ELSE [opt |-> [opt EXCEPT !.value = Bool(newVal.b),
                                       !.setByUser = TRUE],
                   log |-> <<>>]
    ELSE IF opt.value.ty = "number"
    THEN LET newVal == Number(input)
         IN  IF isNaN(newVal)
             THEN [opt |-> opt, log |-> <<printValueUpdateError(opt, input)>>]
             ELSE [opt |-> [opt EXCEPT !.value = newVal, !.setByUser = TRUE],
                   log |-> <<>>]
    ELSE [opt |-> [opt EXCEPT !.value = String(input)], log |-> <<>>]

(* Option.load: dispatches on typeof this.value, not on this.type.         *)
(* The result is the option after the call and what was logged. *)
load(opt, input) ==
    IF opt.value.ty = "boolean"
    THEN LET newVal == parseBoolean(input)
         IN  IF newVal.null
             THEN [opt |-> opt, log |-> <<printValueUpdateError(opt, input)>>]
             ELSE [opt |-> [opt EXCEPT !.value = Bool(newVal.b),
                                       !.setByUser = TRUE],
                   log |-> <<>>]
    ELSE IF opt.value.ty = "number"
    THEN LET newVal == Number(input)
         IN  IF isNaN(newVal)
             THEN [opt |-> opt, log |-> <<printValueUpdateError(opt, input)>>]
             ELSE [opt |-> [opt EXCEPT !.value = newVal, !.setByUser = TRUE],
                   log |-> <<>>]
    ELSE [opt |-> [opt EXCEPT !.value = String(input), !.setByUser = TRUE],
          log |-> <<>>]

----------------------------------------------------------------------------
(* The default `options` tree: group name -> option name -> Option.        *)
(* An Option object is identified by the place that constructs it.         *)

optionsDecl ==
    { [path |-> <<"loader", "enabled">>, type |-> "boolean",
       default |-> Bool(TRUE), primary |-> FALSE],
      [path |-> <<"loader", "pkgWasmUrl">>, type |-> "string",
       default |-> Str("pkg.wasm"), primary |-> FALSE],
      [path |-> <<"loader", "pkgJsUrl">>, type |-> "string",
       default |-> Str("pkg.js"), primary |-> FALSE],
      [path |-> <<"loader", "shadersUrl">>, type |-> "string",
       default |-> Str("shaders"), primary |-> FALSE],
      [path |-> <<"loader", "loaderDownloadToInitRatio">>, type |-> "number",
       default |-> Num("1"), primary |-> FALSE],
      [path |-> <<"loader", "maxBeforeMainTimeMs">>, type |-> "number",
       default |-> Num("300"), primary |-> FALSE],
      [path |-> <<"startup", "entry">>, type |-> "string",
       default |-> Str(DEFAULT_ENTRY_POINT), primary |-> TRUE],
      [path |-> <<"startup", "theme">>, type |-> "string",
       default |-> Str("default"), primary |-> TRUE],
      [path |-> <<"debug", "debug">>, type |-> "boolean",
       default |-> Bool(FALSE), primary |-> TRUE],
      [path |-> <<"debug", "enableSpector">>, type |-> "boolean",
       default |-> Bool(FALSE), primary |-> FALSE] }

Ref(path) == path[1] \o "." \o path[2]

(* options: path -> reference to the Option object found there. *)
options == [p \in {d.path : d \in optionsDecl} |-> Ref(p)]

OptionRefs == {options[p] : p \in DOMAIN options}

DeclOf(ref) == CHOOSE d \in optionsDecl : Ref(d.path) = ref

LoaderEnabled == options[<<"loader", "enabled">>]
StartupEntry  == options[<<"startup", "entry">>]
MaxBeforeMain == options[<<"loader", "maxBeforeMainTimeMs">>]

(* A schema node: an Option (a leaf of the tree), a nested record (a       *)
(* proper prefix of a leaf), or nothing (options[key] == null). *)
IsPrefix(p, q) == Len(p) <= Len(q) /\ SubSeq(q, 1, Len(p)) = p

NodeKind(tree, path) ==
    IF path \in DOMAIN tree THEN "Option"
    ELSE IF \E q \in DOMAIN tree : IsPrefix(path, q) THEN "record"
    ELSE "null"

(* initOptions that also marks every Option it stamps as set by the user *)
initOptionsMarking(tree, st) ==
    [r \in DOMAIN st |->
        IF \E p \in DOMAIN tree : tree[p] = r
        THEN LET p == CHOOSE q \in DOMAIN tree : tree[q] = r
             IN  [st[r] EXCEPT !.group = "TODO", !.name = p[Len(p)],
                               !.setByUser = TRUE]
        ELSE st[r]]

(* initOptions: every Option of the tree gets group 'TODO' and its key as  *)
(* name. *)
initOptions(tree, st) ==
    [r \in DOMAIN st |->
        IF \E p \in DOMAIN tree : tree[p] = r
        THEN LET p == CHOOSE q \in DOMAIN tree : tree[q] = r
             IN  [st[r] EXCEPT !.group = "TODO", !.name = p[Len(p)]]
        ELSE st[r]]

----------------------------------------------------------------------------
(* Override trees.                                                         *)
(* A nested override record is the function from the paths of its scalar   *)
(* leaves to the scalars: {startup: {entry: 'custom'}} is                  *)
(* <<"startup", "entry">> :> Str("custom"). Every leaf lies at depth two   *)
(* or more, as the parameter type Record<string, Record<string, any>> of   *)
(* resolve asks. An element of the overrides list is [null, tree]; null    *)
(* stands for undefined. *)

Override(tree) == [null |-> FALSE, tree |-> tree]
Undefined      == [null |-> TRUE,  tree |-> <<>>]

(* The keys found under `prefix` (Object.entries of the record there). *)
KeysAt(other, prefix) ==
    { q[Len(prefix) + 1] :
        q \in {r \in DOMAIN other : IsPrefix(prefix, r) /\ Len(r) > Len(prefix)} }

(* One round of the loop of resolve over the entries of one override:      *)
(* allOverrides[group] = Object.assign(allOverrides[group] || {}, options) *)
(* replaces, for every key of `options`, whatever allOverrides[group] held *)
(* under that key (a scalar or a whole nested record). *)
assignOverride(allOverrides, override) ==
    LET replaced == {SubSeq(p, 1, 2) : p \in DOMAIN override}
        kept     == {q \in DOMAIN allOverrides : SubSeq(q, 1, 2) \notin replaced}
    IN  [p \in kept \cup DOMAIN override |->
            IF p \in DOMAIN override THEN override[p] ELSE allOverrides[p]]

(* The first loop of resolve: the overrides are folded in list order,      *)
(* undefined entries skipped. *)
RECURSIVE foldOverrides(_, _)
foldOverrides(allOverrides, overrides) ==
    IF overrides = <<>> THEN allOverrides
    ELSE LET override == Head(overrides)
         IN  foldOverrides(
                 IF override.null THEN allOverrides
                 ELSE assignOverride(allOverrides, override.tree),
                 Tail(overrides))

----------------------------------------------------------------------------
(* Config *)

(* resolveFromObjectInternal(options, other), `other` being the part of    *)
(* the override tree under `prefix` and `options` the part of the schema   *)
(* there. A string found at an Option is assigned to its value as it is;   *)
(* every other combination does nothing or descends. The stored Options    *)
(* after the walk are the result; the function itself returns null. *)
RECURSIVE resolveFromObjectInternal(_, _, _, _)
RECURSIVE resolveEntries(_, _, _, _, _)

(* the loop of resolveFromObjectInternal storing String(value) when it     *)
(* meets a nested record at an Option *)
resolveEntriesStringify(tree, prefix, other, keys, st) ==
    IF keys = {} THEN st
    ELSE LET key  == CHOOSE k \in keys : TRUE
             path == Append(prefix, key)
             kind == NodeKind(tree, path)
             st1  ==
                 IF kind = "null" THEN st
                 ELSE IF path \in DOMAIN other /\ other[path].ty = "string"
                 THEN IF kind = "Option"
                      THEN [st EXCEPT ![tree[path]].value = other[path]]
                      ELSE st
                 ELSE IF kind = "Option"
                      THEN [st EXCEPT ![tree[path]].value =
                                          Str("[object Object]")]
                      ELSE resolveFromObjectInternal(tree, path, other, st)
         IN  resolveEntries(tree, prefix, other, keys \ {key}, st1)

resolveEntries(tree, prefix, other, keys, st) ==
    IF keys = {} THEN st
    ELSE LET key  == CHOOSE k \in keys : TRUE
             path == Append(prefix, key)
             kind == NodeKind(tree, path)
             st1  ==
                 IF kind = "null" THEN st
                 ELSE IF path \in DOMAIN other /\ other[path].ty = "string"
                 THEN IF kind = "Option"
                      THEN [st EXCEPT ![tree[path]].value = other[path]]
                      ELSE st
                 ELSE IF kind = "Option" THEN st
                      ELSE resolveFromObjectInternal(tree, path, other, st)
         IN  resolveEntries(tree, prefix, other, keys \ {key}, st1)

resolveFromObjectInternal(tree, prefix, other, st) ==
    IF prefix \notin DOMAIN other
    THEN resolveEntries(tree, prefix, other, KeysAt(other, prefix), st)
    ELSE st

(* The value resolveFromObjectInternal, resolveFromObject and resolve      *)
(* return: always null. A returned list would be [null |-> FALSE, ...]. *)
Null == [null |-> TRUE, params |-> {}]

(* finalize without the comparison with DEFAULT_ENTRY_POINT *)
finalizeAnyEntry(tree, st) ==
    IF ~st[tree[<<"loader", "enabled">>]].setByUser
    THEN [st EXCEPT ![tree[<<"loader", "enabled">>]].value = Bool(FALSE)]
    ELSE st

(* finalize that marks loader.enabled as set by the user when it turns it  *)
(* off *)
finalizeMarking(tree, st) ==
    IF /\ ~st[tree[<<"loader", "enabled">>]].setByUser
       /\ st[tree[<<"startup", "entry">>]].value # Str(DEFAULT_ENTRY_POINT)
    THEN [st EXCEPT ![tree[<<"loader", "enabled">>]].value = Bool(FALSE),
                    ![tree[<<"loader", "enabled">>]].setByUser = TRUE]
    ELSE st

(* finalize without the test of loader.enabled.setByUser *)
finalizeForcing(tree, st) ==
    IF st[tree[<<"startup", "entry">>]].value # Str(DEFAULT_ENTRY_POINT)
    THEN [st EXCEPT ![tree[<<"loader", "enabled">>]].value = Bool(FALSE)]
    ELSE st

(* Config.finalize *)
finalize(tree, st) ==
    IF /\ ~st[tree[<<"loader", "enabled">>]].setByUser
       /\ st[tree[<<"startup", "entry">>]].value # Str(DEFAULT_ENTRY_POINT)
    THEN [st EXCEPT ![tree[<<"loader", "enabled">>]].value = Bool(FALSE)]
    ELSE st

(* resolve with finalize run before the walk instead of after it *)
resolveFinalizeFirst(tree, overrides, st) ==
    LET allOverrides == foldOverrides(<<>>, overrides)
    IN  [store |-> resolveFromObjectInternal(tree, <<>>, allOverrides,
                                             finalize(tree, st)),
         returned |-> Null, allOverrides |-> allOverrides]

(* resolve giving up, before the walk, when the folded tree has a key the  *)
(* schema does not have *)
resolveGivingUp(tree, overrides, st) ==
    LET allOverrides == foldOverrides(<<>>, overrides)
        st1 == resolveFromObjectInternal(tree, <<>>, allOverrides, st)
    IN  IF \E p \in DOMAIN allOverrides : NodeKind(tree, p) = "null"
        THEN [store |-> st, returned |-> Null, allOverrides |-> allOverrides]
        ELSE [store |-> finalize(tree, st1), returned |-> Null,
              allOverrides |-> allOverrides]

(* resolve that also runs finalize once the first source alone is applied *)
resolveFinalizeEach(tree, overrides, st) ==
    LET allOverrides == foldOverrides(<<>>, overrides)
        st0 == IF overrides = <<>> THEN st
               ELSE finalize(tree,
                        resolveFromObjectInternal(tree, <<>>,
                            foldOverrides(<<>>, <<Head(overrides)>>), st))
        st1 == resolveFromObjectInternal(tree, <<>>, allOverrides, st0)
    IN  [store |-> finalize(tree, st1), returned |-> Null,
         allOverrides |-> allOverrides]

(* Config.resolve: fold, walk, finalize, return what the walk returned. *)
resolve(tree, overrides, st) ==
    LET allOverrides == foldOverrides(<<>>, overrides)
        st1 == resolveFromObjectInternal(tree, <<>>, allOverrides, st)
    IN  [store |-> finalize(tree, st1), returned |-> Null,
         allOverrides |-> allOverrides]

----------------------------------------------------------------------------
(* Group *)

(* Group objects are numbered in the order they are constructed; `gs` is   *)
(* the sequence of all Group objects, each the two reference maps          *)
(* [options: name -> Option, groups: name -> Group]. *)

(* `from` is history, not a field of the class: <<self, other>> for the     *)
(* result of self.merge(other), <<>> for a Group built by `new Group`. *)
Group(optionMap, groupMap) ==
    [options |-> optionMap, groups |-> groupMap, from |-> <<>>]

(* Group.merge: the result is a new Group; its maps are filled with        *)
(* references to the children of `self` and `other`, and only a group name *)
(* both sides have is merged recursively into another new Group. *)
RECURSIVE merge(_, _, _)
RECURSIVE mergeGroupEntries(_, _, _, _)

mergeGroupEntries(result, other, names, gs) ==
    IF names = {} THEN gs
    ELSE LET otherGroupName == CHOOSE n \in names : TRUE
             otherGroup     == gs[other].groups[otherGroupName]
             rest           == names \ {otherGroupName}
         IN  IF otherGroupName \notin DOMAIN gs[result].groups
             THEN mergeGroupEntries(result, other, rest,
                      [gs EXCEPT ![result].groups =
                          (otherGroupName :> otherGroup) @@ @])
             ELSE LET m == merge(gs[result].groups[otherGroupName], otherGroup, gs)
                  IN  mergeGroupEntries(result, other, rest,
                          [m.gs EXCEPT ![result].groups =
                              (otherGroupName :> m.result) @@ @])

(* merge that keeps the Option of `self` under a name both sides have *)
mergeSelfWins(self, other, gs) ==
    LET result == Len(gs) + 1
        gs0 == Append(gs, Group(<<>>, gs[self].groups))
        gs1 == mergeGroupEntries(result, other, DOMAIN gs[other].groups, gs0)
        optionMap ==
            [n \in DOMAIN gs[self].options \cup DOMAIN gs[other].options |->
                IF n \in DOMAIN gs[self].options
                THEN gs[self].options[n]
                ELSE gs[other].options[n]]
    IN  [gs |-> [gs1 EXCEPT ![result].options = optionMap,
                            ![result].from = <<self, other>>],
         result |-> result]

(* merge whose loop over the options of `other` ends after the first one *)
mergeFirstOptionOnly(self, other, gs) ==
    LET result == Len(gs) + 1
        gs0 == Append(gs, Group(<<>>, gs[self].groups))
        gs1 == mergeGroupEntries(result, other, DOMAIN gs[other].groups, gs0)
        first ==
            IF DOMAIN gs[other].options = {} THEN {}
            ELSE {CHOOSE n \in DOMAIN gs[other].options : TRUE}
        optionMap ==
            [n \in DOMAIN gs[self].options \cup first |->
                IF n \in first
                THEN gs[other].options[n]
                ELSE gs[self].options[n]]
    IN  [gs |-> [gs1 EXCEPT ![result].options = optionMap,
                            ![result].from = <<self, other>>],
         result |-> result]

merge(self, other, gs) ==
    LET result == Len(gs) + 1
        gs0 == Append(gs, Group(<<>>, gs[self].groups))
        gs1 == mergeGroupEntries(result, other, DOMAIN gs[other].groups, gs0)
        optionMap ==
            [n \in DOMAIN gs[self].options \cup DOMAIN gs[other].options |->
                IF n \in DOMAIN gs[other].options
                THEN gs[other].options[n]
                ELSE gs[self].options[n]]
    IN  [gs |-> [gs1 EXCEPT ![result].options = optionMap,
                            ![result].from = <<self, other>>],
         result |-> result]

(* console.error('TODO') *)
consoleTODO ==
    [name |-> "console", expected |-> "", got |-> Str("TODO"), using |-> Str("")]

(* Group.load(config): `config` is an override tree, or a scalar (no       *)
(* object). Only a string directly under a key that names an Option of     *)
(* this group is loaded. The result is [store, log]. *)
RECURSIVE groupLoadEntries(_, _, _, _)
groupLoadEntries(group, config, keys, acc) ==
    IF keys = {} THEN acc
    ELSE LET key  == CHOOSE k \in keys : TRUE
             rest == keys \ {key}
         IN  IF <<key>> \in DOMAIN config /\ config[<<key>>].ty = "string"
             THEN IF key \notin DOMAIN group.options
                  THEN groupLoadEntries(group, config, rest,
                           [acc EXCEPT !.log = Append(@, consoleTODO)])
                  ELSE LET ref == group.options[key]
                           l   == load(acc.store[ref], config[<<key>>])
                       IN  groupLoadEntries(group, config, rest,
                               [store |-> [acc.store EXCEPT ![ref] = l.opt],
                                log   |-> acc.log \o l.log])
             ELSE groupLoadEntries(group, config, rest,
                      [acc EXCEPT !.log = Append(@, consoleTODO)])

groupLoad(group, config, st) ==
    IF <<>> \notin DOMAIN config
    THEN groupLoadEntries(group, config, KeysAt(config, <<>>),
                          [store |-> st, log |-> <<>>])
    ELSE [store |-> st, log |-> <<consoleTODO>>]

(* The Options and Groups of the merge example: opt1, opt2 and their grp1 *)
groupOptionsDecl ==
    { [ref |-> "opt1.opt1"],     [ref |-> "opt1.grp1.grp1Opt1"],
      [ref |-> "opt2.opt2"],     [ref |-> "opt2.grp1.grp1Opt2"] }

GroupOptionRefs == {d.ref : d \in groupOptionsDecl}

opt1grp1 == 1
opt1     == 2
opt2grp1 == 3
opt2     == 4

exampleGroups ==
    << Group("grp1Opt1" :> "opt1.grp1.grp1Opt1", <<>>),
       Group("opt1" :> "opt1.opt1", "grp1" :> opt1grp1),
       Group("grp1Opt2" :> "opt2.grp1.grp1Opt2", <<>>),
       Group("opt2" :> "opt2.opt2", "grp1" :> opt2grp1) >>

(* const xx = opt1.merge(opt2), run when the module is loaded *)
xxMerge == merge(opt1, opt2, exampleGroups)
xx      == xxMerge.result

----------------------------------------------------------------------------
(* Inputs *)

MaxSources == 2     \* longest overrides list handed to resolve
MaxGroups  == 7     \* Group objects that may exist at once

Leaf(path, text) == path :> Str(text)

(* The override sources the callers hand to resolve. *)
Sources ==
    { Override(Leaf(<<"startup", "entry">>, "custom")),
      Override(Leaf(<<"startup", "entry">>, "custom")
               @@ Leaf(<<"loader", "enabled">>, "true")),
      Override(Leaf(<<"startup", "entry">>, "ide")
               @@ Leaf(<<"loader", "maxBeforeMainTimeMs">>, "3.14")
               @@ Leaf(<<"loader", "sub", "y">>, "2")),
      Override(Leaf(<<"loader", "enabled">>, "1")
               @@ Leaf(<<"loader", "maxBeforeMainTimeMs">>, "abc")
               @@ Leaf(<<"loader", "bogus">>, "x")
               @@ Leaf(<<"bogus", "sub", "deep">>, "x")),
      Override(Leaf(<<"startup", "entry", "x">>, "y")
               @@ Leaf(<<"loader", "sub", "x">>, "1")),
      Undefined }

OverrideLists == UNION {[1..n -> Sources] : n \in 0..MaxSources}

(* The Options callers load directly between resolves, and with what. *)
LoadTargets  == {LoaderEnabled, MaxBeforeMain}
DirectInputs == {Str("true"), Str("maybe")}

(* The configs handed to Group.load. *)
GroupConfigs ==
    { Leaf(<<"opt1">>, "true"),
      Leaf(<<"opt2">>, "maybe") @@ Leaf(<<"grp1Opt1">>, "yes"),
      Leaf(<<"grp1", "grp1Opt1">>, "true"),
      Leaf(<<>>, "true") }

----------------------------------------------------------------------------
(* What a call was given, kept for stating the properties. *)

(* The indices of the sources that set the leaf at `path`. *)
Setting(overrides, path) ==
    {i \in 1..Len(overrides) :
        ~overrides[i].null /\ path \in DOMAIN overrides[i].tree}

GivenPaths(overrides) ==
    UNION {DOMAIN overrides[i].tree :
              i \in {j \in 1..Len(overrides) : ~overrides[j].null}}

Max(S) == CHOOSE i \in S : \A j \in S : j <= i

(* The scalar the latest source that sets `path` gives it. *)
LatestGiven(overrides) ==
    [p \in GivenPaths(overrides) |->
        overrides[Max(Setting(overrides, p))].tree[p]]

GivenTwice(overrides) ==
    {p \in GivenPaths(overrides) : Cardinality(Setting(overrides, p)) >= 2}

NoCall ==
    [op |-> "new Config", first |-> FALSE, n |-> 0, latest |-> <<>>,
     twice |-> {}, target |-> "", input |-> Str(""), self |-> 0]

----------------------------------------------------------------------------
(* The state machine *)

(* The state after the module is loaded and `new Config()` has run. *)
Init ==
    /\ store = initOptions(options,
           [r \in OptionRefs \cup GroupOptionRefs |->
               IF r \in OptionRefs
               THEN Option(DeclOf(r))
               ELSE Option([default |-> Bool(FALSE), type |-> "boolean",
                            primary |-> TRUE])])
    /\ groups = xxMerge.gs
    /\ lastCall = NoCall
    /\ returned = Null
    /\ logged = <<>>
    /\ folded = <<>>
    /\ configs = <<options>>

IsFirst == lastCall.op = "new Config"

(* config.resolve(overrides) *)
Resolve(overrides) ==
    \E r \in {resolve(options, overrides, store)} :
        /\ store' = r.store
        /\ returned' = r.returned
        /\ logged' = <<>>
        /\ lastCall' = [NoCall EXCEPT !.op = "resolve", !.first = IsFirst,
                                      !.n = Len(overrides),
                                      !.latest = LatestGiven(overrides),
                                      !.twice = GivenTwice(overrides)]
        /\ folded' = r.allOverrides
        /\ UNCHANGED <<groups, configs>>

(* config.finalize() *)
Finalize ==
    /\ store' = finalize(options, store)
    /\ logged' = <<>>
    /\ lastCall' = [NoCall EXCEPT !.op = "finalize", !.first = IsFirst]
    /\ folded' = <<>>
    /\ UNCHANGED <<groups, returned, configs>>

(* option.load(input) on the Option object `ref` *)
Load(ref, input) ==
    LET l == load(store[ref], input)
    IN  /\ store' = [store EXCEPT ![ref] = l.opt]
        /\ logged' = l.log
        /\ lastCall' = [NoCall EXCEPT !.op = "load", !.first = IsFirst,
                                      !.target = ref, !.input = input]
        /\ folded' = <<>>
        /\ UNCHANGED <<groups, returned, configs>>

(* self.merge(other) on two Group objects *)
Merge(self, other) ==
    LET m == merge(self, other, groups)
    IN  /\ Len(m.gs) <= MaxGroups
        /\ groups' = m.gs
        /\ logged' = <<>>
        /\ lastCall' = [NoCall EXCEPT !.op = "merge", !.first = IsFirst,
                                      !.self = m.result]
        /\ folded' = <<>>
        /\ UNCHANGED <<store, returned, configs>>

(* group.load(config) on the Group object `g` *)
GroupLoad(g, config) ==
    LET l == groupLoad(groups[g], config, store)
    IN  /\ store' = l.store
        /\ logged' = l.log
        /\ lastCall' = [NoCall EXCEPT !.op = "Group.load", !.first = IsFirst,
                                      !.self = g]
        /\ folded' = <<>>
        /\ UNCHANGED <<groups, returned, configs>>

(* The resolver and its callers. *)
Next ==
    \/ \E overrides \in OverrideLists : Resolve(overrides)
    \/ Finalize
    \/ \E ref \in LoadTargets, input \in DirectInputs : Load(ref, input)

Spec == Init /\ [][Next]_vars

(* The Groups of the merge example and their callers. *)
NextGroup ==
    \/ \E self \in 1..Len(groups), other \in 1..Len(groups) : Merge(self, other)
    \/ \E g \in 1..Len(groups), config \in GroupConfigs : GroupLoad(g, config)

SpecGroup == Init /\ [][NextGroup]_vars

----------------------------------------------------------------------------
(* Option.load with every kind of raw input *)

(* The raw inputs callers hand to option.load. *)
LoadInputs ==
    {Str(t) : t \in {"true", "false", "maybe", "abc", "3.14", "",
                     "Infinity", "-Infinity"}}

(* A boolean, a number and a string Option. *)
OptionTargets == {LoaderEnabled, MaxBeforeMain, StartupEntry}

(* The override lists resolve is given between these loads. *)
OptionOverrideLists ==
    {<<>>, <<Override(Leaf(<<"startup", "entry">>, "custom"))>>}

NextOption ==
    \/ \E ref \in OptionTargets, input \in LoadInputs : Load(ref, input)
    \/ \E overrides \in OptionOverrideLists : Resolve(overrides)
    \/ Finalize

SpecOption == Init /\ [][NextOption]_vars

----------------------------------------------------------------------------
(* resolve and finalize alone *)

NextResolve ==
    \/ \E overrides \in OverrideLists : Resolve(overrides)
    \/ Finalize

SpecResolve == Init /\ [][NextResolve]_vars

----------------------------------------------------------------------------
(* Construction of Config objects *)

MaxConfigs == 2

(* The state after the module is loaded: the Options of `options` and of   *)
(* the merge example are constructed, no Config is. *)
InitModule ==
    /\ store = [r \in OptionRefs \cup GroupOptionRefs |->
                   IF r \in OptionRefs
                   THEN Option(DeclOf(r))
                   ELSE Option([default |-> Bool(FALSE), type |-> "boolean",
                                primary |-> TRUE])]
    /\ groups = xxMerge.gs
    /\ lastCall = [NoCall EXCEPT !.op = "module"]
    /\ returned = Null
    /\ logged = <<>>
    /\ folded = <<>>
    /\ configs = <<>>

(* No call but constructions has been made so far. *)
OnlyConstructed ==
    \/ lastCall.op = "module"
    \/ lastCall.op = "new Config" /\ lastCall.first

(* new Config(): inputOptions is undefined, so this.options is the module's *)
(* `options` object, and initOptions stamps it. *)
NewConfig ==
    /\ Len(configs) < MaxConfigs
    /\ configs' = Append(configs, options)
    /\ store' = initOptions(options, store)
    /\ lastCall' = [NoCall EXCEPT !.op = "new Config",
                                  !.first = OnlyConstructed,
                                  !.self = Len(configs) + 1]
    /\ logged' = <<>>
    /\ folded' = <<>>
    /\ UNCHANGED <<groups, returned>>

(* configs[c].resolve(overrides) *)
ResolveOn(c, overrides) ==
    \E r \in {resolve(configs[c], overrides, store)} :
        /\ store' = r.store
        /\ returned' = r.returned
        /\ logged' = <<>>
        /\ folded' = r.allOverrides
        /\ lastCall' = [NoCall EXCEPT !.op = "resolve", !.first = IsFirst,
                                      !.n = Len(overrides),
                                      !.latest = LatestGiven(overrides),
                                      !.twice = GivenTwice(overrides),
                                      !.self = c]
        /\ UNCHANGED <<groups, configs>>

(* The override lists the Configs are given: one source at most. *)
ConfigOverrideLists == {<<>>} \cup {<<s>> : s \in Sources}

NextConfig ==
    \/ NewConfig
    \/ \E c \in 1..Len(configs), overrides \in ConfigOverrideLists :
           ResolveOn(c, overrides)

SpecConfig == InitModule /\ [][NextConfig]_vars

----------------------------------------------------------------------------
(* Three Groups merged in both orders *)

MaxMerged == 10

(* a.merge(b).merge(c) and then a.merge(b.merge(c)): four merges, each of  *)
(* which constructs one Group at least. *)
MergeBothWays(a, b, c) ==
    /\ Len(groups) + 4 <= MaxMerged
    /\ LET ab == merge(a, b, groups)
           l  == merge(ab.result, c, ab.gs)
           bc == merge(b, c, l.gs)
           r  == merge(a, bc.result, bc.gs)
       IN  /\ Len(r.gs) <= MaxMerged
           /\ groups' = r.gs
           /\ lastCall' = [NoCall EXCEPT !.op = "merge", !.first = IsFirst,
                                         !.self = r.result]
    /\ logged' = <<>>
    /\ folded' = <<>>
    /\ UNCHANGED <<store, returned, configs>>

NextAssoc ==
    \/ \E a \in 1..Len(groups), b \in 1..Len(groups), c \in 1..Len(groups) :
           MergeBothWays(a, b, c)
    \/ \E g \in 1..Len(groups), config \in GroupConfigs : GroupLoad(g, config)

SpecAssoc == Init /\ [][NextAssoc]_vars

----------------------------------------------------------------------------
(* Merges with a Group a caller builds *)

MaxShaped == 9

(* new Group({options: {opt1: opt2.options.opt2,                           *)
(*                      grp1: opt2.groups.grp1.options.grp1Opt2}}):        *)
(* its option names are the names opt1 gives an Option and a Group. *)
callerGroup ==
    Group(("opt1" :> "opt2.opt2") @@ ("grp1" :> "opt2.grp1.grp1Opt2"), <<>>)

caller == Len(xxMerge.gs) + 1

(* The state after the module is loaded, `new Config()` has run and the    *)
(* caller has built its Group. *)
InitShape ==
    /\ store = initOptions(options,
           [r \in OptionRefs \cup GroupOptionRefs |->
               IF r \in OptionRefs
               THEN Option(DeclOf(r))
               ELSE Option([default |-> Bool(FALSE), type |-> "boolean",
                            primary |-> TRUE])])
    /\ groups = Append(xxMerge.gs, callerGroup)
    /\ lastCall = NoCall
    /\ returned = Null
    /\ logged = <<>>
    /\ folded = <<>>
    /\ configs = <<options>>

(* self.merge(other) *)
MergeShaped(self, other) ==
    LET m == merge(self, other, groups)
    IN  /\ Len(m.gs) <= MaxShaped
        /\ groups' = m.gs
        /\ logged' = <<>>
        /\ lastCall' = [NoCall EXCEPT !.op = "merge", !.first = IsFirst,
                                      !.self = m.result]
        /\ folded' = <<>>
        /\ UNCHANGED <<store, returned, configs>>

(* Any Group is merged with opt2 or with the Group of the caller. *)
NextShape ==
    \E self \in 1..Len(groups), other \in {opt2, caller} :
        MergeShaped(self, other)

SpecShape == InitShape /\ [][NextShape]_vars

----------------------------------------------------------------------------
(* Override trees and configs whose kinds do not match the schema *)

(* The trees handed to resolveFromObject: a nested record at an Option     *)
(* beside a valid entry, a scalar at a group beside a valid entry, a       *)
(* nested record at loader.enabled, and two trees that match the schema. *)
KindTrees ==
    { Leaf(<<"startup", "entry", "x">>, "y") @@ Leaf(<<"loader", "enabled">>, "1"),
      Leaf(<<"loader">>, "x") @@ Leaf(<<"startup", "entry">>, "custom"),
      Leaf(<<"loader", "enabled", "x">>, "y")
          @@ Leaf(<<"startup", "entry">>, "custom"),
      Leaf(<<"startup", "entry">>, "custom"),
      Leaf(<<"startup", "entry">>, "ide")
          @@ Leaf(<<"loader", "maxBeforeMainTimeMs">>, "3.14") }

(* resolve takes one source, a tree whose leaves lie at depth two or more. *)
KindOverrideLists ==
    {<<Override(t)>> : t \in {u \in KindTrees : \A p \in DOMAIN u : Len(p) >= 2}}

(* The configs handed to Group.load: a scalar at a group beside a valid   *)
(* entry, a nested record at an Option beside a valid entry, a valid one. *)
KindConfigs ==
    { Leaf(<<"grp1">>, "x") @@ Leaf(<<"opt1">>, "true"),
      Leaf(<<"opt1", "x">>, "y") @@ Leaf(<<"opt2">>, "yes"),
      Leaf(<<"opt1">>, "false") }

(* config.resolveFromObject(other): the walk alone *)
ResolveFromObject(other) ==
    /\ store' = resolveFromObjectInternal(options, <<>>, other, store)
    /\ returned' = Null
    /\ logged' = <<>>
    /\ folded' = <<>>
    /\ lastCall' = [NoCall EXCEPT !.op = "resolveFromObject",
                                  !.first = IsFirst, !.latest = other]
    /\ UNCHANGED <<groups, configs>>

(* group.load(config) on the Group object `g` *)
GroupLoadGiven(g, config) ==
    LET l == groupLoad(groups[g], config, store)
    IN  /\ store' = l.store
        /\ logged' = l.log
        /\ lastCall' = [NoCall EXCEPT !.op = "Group.load", !.first = IsFirst,
                                      !.self = g, !.latest = config]
        /\ folded' = <<>>
        /\ UNCHANGED <<groups, returned, configs>>

NextKind ==
    \/ \E other \in KindTrees : ResolveFromObject(other)
    \/ \E overrides \in KindOverrideLists : Resolve(overrides)
    \/ \E g \in 1..Len(groups), config \in KindConfigs : GroupLoadGiven(g, config)

SpecKind == Init /\ [][NextKind]_vars

----------------------------------------------------------------------------
(* Properties *)

LoaderEnabledPath == <<"loader", "enabled">>

(* What type-directed coercion makes of a raw scalar, and whether it can. *)
Coercible(type, raw) ==
    CASE type = "boolean" -> ~parseBoolean(raw).null
      [] type = "number"  -> raw \in {Str("3.14"), Str("1"), Str("0")}
      [] OTHER            -> TRUE

Coerced(type, raw) ==
    CASE type = "boolean" -> Bool(parseBoolean(raw).b)
      [] type = "number"  -> Num(raw.s)
      [] OTHER            -> raw

(* The schema leaves the sources of the last resolve set to a scalar their *)
(* Option can take. *)
SetLeaves ==
    {p \in DOMAIN lastCall.latest \cap DOMAIN options :
        Coercible(store[options[p]].type, lastCall.latest[p])}

RECURSIVE Dotted(_)
Dotted(path) ==
    IF Len(path) = 1 THEN path[1]
    ELSE path[1] \o "." \o Dotted(Tail(path))

(* The override paths of the last resolve that name nothing in the schema, *)
(* each cut at the first key that is not there. *)
UnrecognizedPaths ==
    {q \in UNION {{SubSeq(p, 1, k) : k \in 1..Len(p)} : p \in DOMAIN lastCall.latest} :
        /\ NodeKind(options, q) = "null"
        /\ (Len(q) = 1 \/ NodeKind(options, SubSeq(q, 1, Len(q) - 1)) = "record")}

(* C1: after a resolve in which some source sets loader.enabled, the       *)
(* derivation is skipped and loader.enabled.value is the coerced value the *)
(* latest such source gives (true for "true"), whatever startup.entry is.  *)
C1_ExplicitUserValuePreserved ==
    (lastCall.op = "resolve" /\ LoaderEnabledPath \in SetLeaves)
        => store[LoaderEnabled].value =
               Coerced("boolean", lastCall.latest[LoaderEnabledPath])

(* C2: after a resolve in which two or more sources set the same schema    *)
(* leaf, that Option holds the value of the latest of them and its         *)
(* setByUser is true. *)
C2_MultiSourcePrecedence ==
    lastCall.op = "resolve" =>
        \A p \in SetLeaves \cap lastCall.twice :
            /\ store[options[p]].value =
                   Coerced(store[options[p]].type, lastCall.latest[p])
            /\ store[options[p]].setByUser

(* C3: a raw text override that reaches a matching Option is applied       *)
(* through load: after resolve the Option holds the coerced value (the     *)
(* boolean true for 'true' or '1', the number 3.14 for '3.14'), not the    *)
(* raw string. *)
C3_ResolveCoerces ==
    lastCall.op = "resolve" =>
        \A p \in SetLeaves :
            store[options[p]].value =
                Coerced(store[options[p]].type, lastCall.latest[p])

(* C4: in every reachable state the value of every Option has the runtime  *)
(* shape of its declared type. *)
C4_TypeInvariant ==
    \A r \in OptionRefs : store[r].value.ty = store[r].type

(* C5: every override path with no Option or Group in the schema is in the *)
(* list resolve returns, as its dotted path. *)
C5_UnrecognizedReturned ==
    lastCall.op = "resolve" =>
        \A q \in UnrecognizedPaths :
            ~returned.null /\ Dotted(q) \in returned.params

(* The Options reachable from a Group. *)
RECURSIVE Reach(_, _)
Reach(gs, g) ==
    {gs[g].options[n] : n \in DOMAIN gs[g].options}
        \cup UNION {Reach(gs, gs[g].groups[n]) : n \in DOMAIN gs[g].groups}

(* C6: a load against m = A.merge(B) leaves every Option reachable from A  *)
(* and every Option reachable from B as it was. *)
C6_MergeNonMutating ==
    [][(lastCall'.op = "Group.load" /\ groups[lastCall'.self].from # <<>>)
          => \A r \in Reach(groups, groups[lastCall'.self].from[1])
                          \cup Reach(groups, groups[lastCall'.self].from[2]) :
                 store'[r] = store[r]]_vars

(* C7: after a resolve in which no source sets loader.enabled, with        *)
(* loader.enabled not set by the user and the resolved startup.entry other *)
(* than "ide", loader.enabled.value is false. *)
C7_DerivationWhenNotUserSet ==
    (/\ lastCall.op = "resolve"
     /\ LoaderEnabledPath \notin DOMAIN lastCall.latest
     /\ ~store[LoaderEnabled].setByUser
     /\ store[StartupEntry].value # Str("ide"))
        => store[LoaderEnabled].value = Bool(FALSE)

C7_Witness ==
    /\ lastCall.op = "resolve"
    /\ lastCall.n >= 1
    /\ LoaderEnabledPath \notin DOMAIN lastCall.latest
    /\ <<"startup", "entry">> \in DOMAIN lastCall.latest
    /\ ~store[LoaderEnabled].setByUser
    /\ store[StartupEntry].value = Str("custom")
    /\ store[LoaderEnabled].value = Bool(FALSE)

(* C8: resolve([]) as the first call on a new Config leaves every Option   *)
(* at its default with setByUser false: startup.entry is "ide" and         *)
(* loader.enabled is true. *)
C8_ResolveNothing ==
    (lastCall.op = "resolve" /\ lastCall.first /\ lastCall.n = 0)
        => /\ \A r \in OptionRefs :
                  store[r].value = store[r].default /\ ~store[r].setByUser
           /\ store[StartupEntry].value = Str("ide")
           /\ store[LoaderEnabled].value = Bool(TRUE)

C8_Witness ==
    /\ lastCall.op = "resolve" /\ lastCall.first /\ lastCall.n = 0
    /\ store[LoaderEnabled].value = Bool(TRUE)

TrueInputs  == {Bool(TRUE), Str("true"), Str("1"), Str("yes"), Str("enabled")}
FalseInputs == {Bool(FALSE), Str("false"), Str("0"), Str("no"), Str("disabled")}

(* C9: load on a boolean Option, in any state, of raw true or one of       *)
(* "true", "1", "yes", "enabled" sets value to true and setByUser to true; *)
(* of raw false or one of "false", "0", "no", "disabled" sets value to     *)
(* false and setByUser to true. *)
C9_BooleanCoercion ==
    (lastCall.op = "load" /\ store[lastCall.target].type = "boolean"
                          /\ lastCall.input \in TrueInputs \cup FalseInputs)
        => /\ store[lastCall.target].value = Bool(lastCall.input \in TrueInputs)
           /\ store[lastCall.target].setByUser

(* Text that is no decimal number. *)
NotANumber == {Str("abc"), Str("maybe"), Str("custom"), Str("ide")}

(* C10: load on a boolean Option of an input outside the accepted boolean  *)
(* set, or on a number Option of text that is no number, leaves value and  *)
(* setByUser as they were before the call. *)
C10_FailedCoercionChangesNothing ==
    [][(/\ lastCall'.op = "load"
        /\ \/ /\ store[lastCall'.target].type = "boolean"
              /\ lastCall'.input \notin TrueInputs \cup FalseInputs
           \/ /\ store[lastCall'.target].type = "number"
              /\ lastCall'.input \in NotANumber)
          => /\ store'[lastCall'.target].value = store[lastCall'.target].value
             /\ store'[lastCall'.target].setByUser
                    = store[lastCall'.target].setByUser]_vars

(* Text that is a finite decimal number. *)
FiniteDecimals == {"3.14", "1", "0"}

(* C11: load on a number Option of text that is a finite decimal number    *)
(* ("3.14") sets value to that number and setByUser to true; load of any   *)
(* other text ("Infinity", "-Infinity", "abc", the empty string) leaves    *)
(* value and setByUser as they were before the call. *)
C11_NumberCoercionFinite ==
    [][(/\ lastCall'.op = "load"
        /\ store[lastCall'.target].type = "number"
        /\ lastCall'.input.ty = "string")
          => IF lastCall'.input.s \in FiniteDecimals
             THEN /\ store'[lastCall'.target].value = Num(lastCall'.input.s)
                  /\ store'[lastCall'.target].setByUser
             ELSE /\ store'[lastCall'.target].value
                        = store[lastCall'.target].value
                  /\ store'[lastCall'.target].setByUser
                        = store[lastCall'.target].setByUser]_vars

(* The diagnostic a failed coercion of `raw` on the Option `ref` is to     *)
(* emit: qualified name, expected type, rejected input, value retained. *)
CoercionFailure(ref, raw) ==
    [name     |-> qualifiedName(store[ref]),
     expected |-> store[ref].type,
     got      |-> raw,
     using    |-> String(store[ref].value)]

(* C13: after a load whose input cannot be coerced to the type of the      *)
(* Option, exactly one diagnostic has been emitted, and it carries the     *)
(* qualified name, the expected type, the rejected input and the value the *)
(* Option now holds; after a resolve, exactly one such diagnostic has been *)
(* emitted for every folded override its Option cannot take. *)
C13_CoercionFailureReported ==
    /\ (lastCall.op = "load"
            /\ ~Coercible(store[lastCall.target].type, lastCall.input))
        => logged = <<CoercionFailure(lastCall.target, lastCall.input)>>
    /\ lastCall.op = "resolve"
        => \A p \in DOMAIN folded \cap DOMAIN options :
              ~Coercible(store[options[p]].type, folded[p])
              => Cardinality({i \in 1..Len(logged) :
                     logged[i] = CoercionFailure(options[p], folded[p])}) = 1

(* C18: load of a raw string on a string Option, in any state, sets value  *)
(* to exactly that string and setByUser to true, and emits no diagnostic. *)
C18_StringCoercion ==
    (lastCall.op = "load" /\ store[lastCall.target].type = "string"
                          /\ lastCall.input.ty = "string")
        => /\ store[lastCall.target].value = lastCall.input
           /\ store[lastCall.target].setByUser
           /\ logged = <<>>

(* The empty string has been loaded into startup.entry after a resolve    *)
(* wrote that Option. *)
C18_Witness ==
    /\ lastCall.op = "load"
    /\ lastCall.target = StartupEntry
    /\ lastCall.input = Str("")
    /\ ~lastCall.first
    /\ store[StartupEntry].value = Str("")
    /\ store[StartupEntry].setByUser

(* The folded overrides that a resolve can apply: a string at the path of  *)
(* an Option, which the type of the Option can take. *)
ValidLeaves(all) ==
    {p \in DOMAIN all \cap DOMAIN options :
        /\ all[p].ty = "string"
        /\ Coercible(store[options[p]].type, all[p])}

(* The Options an invalid folded override is addressed to. *)
Spoiled(all) ==
    {options[p] : p \in (DOMAIN all \cap DOMAIN options) \ ValidLeaves(all)}

(* C12: a resolve whose folded override tree mixes invalid entries         *)
(* (uncoercible values, unrecognized paths) with valid ones returns, and   *)
(* leaves every Option no invalid entry is addressed to exactly as the     *)
(* walk over the valid entries alone followed by finalize leaves it. *)
C12_BadParameterDoesNotBlock ==
    [][lastCall'.op = "resolve"
          => \A good \in {ValidLeaves(folded')} :
               (good # {} /\ DOMAIN folded' # good)
               => \A clean \in {finalize(options,
                                    resolveFromObjectInternal(options, <<>>,
                                        [p \in good |-> folded'[p]], store))} :
                    /\ returned' = Null
                    /\ \A p \in DOMAIN options :
                          (p \in good \/ p \notin DOMAIN folded')
                          => /\ store'[options[p]].value
                                    = clean[options[p]].value
                             /\ store'[options[p]].setByUser
                                    = clean[options[p]].setByUser]_vars

(* A resolve has folded "1" for loader.enabled together with "abc" for the *)
(* number Option and two unrecognized paths, and loader.enabled holds what *)
(* the valid entry gave. *)
C12_Witness ==
    /\ lastCall.op = "resolve"
    /\ <<"loader", "enabled">> \in ValidLeaves(folded)
    /\ MaxBeforeMain \in Spoiled(folded)
    /\ <<"loader", "bogus">> \in DOMAIN folded
    /\ <<"bogus", "sub", "deep">> \in DOMAIN folded
    /\ store[LoaderEnabled].value = folded[<<"loader", "enabled">>]

(* C14: after self.merge(other), a diagnostic has been emitted for every   *)
(* name that is an Option both in self and in other. *)
C14_ShadowedOptionReported ==
    (lastCall.op = "merge" /\ groups[lastCall.self].from # <<>>)
        => LET self  == groups[lastCall.self].from[1]
               other == groups[lastCall.self].from[2]
           IN  \A n \in DOMAIN groups[self].options
                            \cap DOMAIN groups[other].options :
                   \E i \in 1..Len(logged) : logged[i].name = n

(* C15: once a Config is constructed, the qualifiedName of every Option of *)
(* its tree is the dot-joined path from the root of the tree to the Option *)
(* ("loader.enabled", "debug.debug"), so no two Options share one. *)
C15_QualifiedNameIsPath ==
    \A c \in 1..Len(configs) :
        \A p \in DOMAIN configs[c] :
            qualifiedName(store[configs[c][p]]) = Dotted(p)

(* C17: as long as nothing but constructions has happened (the module is   *)
(* loaded, Configs are constructed), every Option has value equal to its   *)
(* default and setByUser false. *)
C17_FreshOptionsHoldDefault ==
    OnlyConstructed
        => \A r \in DOMAIN store :
              /\ store[r].value = store[r].default
              /\ ~store[r].setByUser

(* Two Configs have been constructed, nothing else has been called, and    *)
(* the constructor has stamped loader.enabled with its name. *)
C17_Witness ==
    /\ OnlyConstructed
    /\ Len(configs) = 2
    /\ store[LoaderEnabled].name = "enabled"
    /\ store[LoaderEnabled].value = Bool(TRUE)

(* C20: a resolve on one Config changes no Option of the tree of any other *)
(* Config, also when both were constructed without a schema of their own. *)
C20_ConfigsIndependent ==
    [][lastCall'.op = "resolve"
          => \A d \in 1..Len(configs) :
                 d # lastCall'.self
                 => \A p \in DOMAIN configs[d] :
                        store'[configs[d][p]] = store[configs[d][p]]]_vars

(* The leaf paths the sources of the last resolve give, but for those one  *)
(* source gives as a leaf and another as a nested record. *)
PlainLeaves ==
    {p \in DOMAIN lastCall.latest :
        \A q \in DOMAIN lastCall.latest :
            (IsPrefix(q, p) \/ IsPrefix(p, q)) => q = p}

(* C19: after a resolve, the folded override tree holds, for every leaf    *)
(* path at any depth that some source gives, the scalar of the latest      *)
(* source that gives it; a leaf only an earlier source gives is still      *)
(* there when a later source gives a sibling under the same nested record. *)
C19_FoldIsDeepMerge ==
    lastCall.op = "resolve"
        => \A p \in PlainLeaves :
              /\ p \in DOMAIN folded
              /\ folded[p] = lastCall.latest[p]

(* The names of the children of a Group. *)
ChildNames(g) == DOMAIN groups[g].options \cup DOMAIN groups[g].groups

(* The Options below a Group, each with its path from the Group. *)
RECURSIVE OptionPaths(_)
OptionPaths(g) ==
    {<<<<n>>, groups[g].options[n]>> : n \in DOMAIN groups[g].options}
        \cup UNION {{<<<<n>> \o e[1], e[2]>> : e \in OptionPaths(groups[g].groups[n])} :
                        n \in DOMAIN groups[g].groups}

(* The pairs <<l, r>> of Groups with l = (a.merge(b)).merge(c) and         *)
(* r = a.merge(b.merge(c)) for Groups a, b, c that share no child names. *)
BothWays ==
    {e \in (1..Len(groups)) \X (1..Len(groups)) :
        /\ groups[e[1]].from # <<>>
        /\ groups[e[2]].from # <<>>
        /\ groups[groups[e[1]].from[1]].from # <<>>
        /\ groups[groups[e[2]].from[2]].from # <<>>
        /\ LET ab == groups[e[1]].from[1]
               c  == groups[e[1]].from[2]
               a  == groups[e[2]].from[1]
               bc == groups[e[2]].from[2]
               b  == groups[bc].from[1]
           IN  /\ groups[ab].from = <<a, b>>
               /\ groups[bc].from = <<b, c>>
               /\ ChildNames(a) \cap ChildNames(b) = {}
               /\ ChildNames(a) \cap ChildNames(c) = {}
               /\ ChildNames(b) \cap ChildNames(c) = {}}

(* C16: for Groups a, b, c that share no child names,                      *)
(* (a.merge(b)).merge(c) and a.merge(b.merge(c)) have the same Option      *)
(* paths, and a load of the same config against either leaves, at every    *)
(* path, the same value and setByUser. *)
C16_MergeAssociative ==
    \A e \in BothWays :
        /\ {x[1] : x \in OptionPaths(e[1])} = {y[1] : y \in OptionPaths(e[2])}
        /\ \A config \in GroupConfigs :
              LET left  == groupLoad(groups[e[1]], config, store).store
                  right == groupLoad(groups[e[2]], config, store).store
              IN  \A x \in OptionPaths(e[1]), y \in OptionPaths(e[2]) :
                      x[1] = y[1]
                      => /\ left[x[2]].value = right[y[2]].value
                         /\ left[x[2]].setByUser = right[y[2]].setByUser

(* A config has been loaded against (a.merge(b)).merge(c) for disjoint a,  *)
(* b and c; that Group has Options of all three and one of them is set. *)
C16_Witness ==
    /\ lastCall.op = "Group.load"
    /\ \E e \in BothWays :
          /\ lastCall.self = e[1]
          /\ Cardinality(OptionPaths(e[1])) >= 3
          /\ \E x \in OptionPaths(e[1]) : store[x[2]].setByUser

StartupEntryPath == <<"startup", "entry">>

(* C21: the derivation of a resolve acts once, on the Options as they are  *)
(* after every source is applied. When the folded tree does not address    *)
(* loader.enabled, its value after the resolve is false if it was not set  *)
(* by the user and startup.entry ends other than "ide", and is what it was *)
(* before the resolve otherwise; startup.entry ends with the scalar the    *)
(* folded tree holds for it, which is the one the latest source gives. *)
C21_FinalizeAfterAllSources ==
    [][(lastCall'.op = "resolve" /\ LoaderEnabledPath \notin DOMAIN folded')
          => /\ store'[LoaderEnabled].value =
                    IF /\ ~store[LoaderEnabled].setByUser
                       /\ store'[StartupEntry].value # Str(DEFAULT_ENTRY_POINT)
                    THEN Bool(FALSE)
                    ELSE store[LoaderEnabled].value
             /\ StartupEntryPath \in DOMAIN folded'
                    => /\ store'[StartupEntry].value = folded'[StartupEntryPath]
                       /\ folded'[StartupEntryPath]
                              = lastCall'.latest[StartupEntryPath]]_vars

(* Two sources were resolved, both set startup.entry and the later one to  *)
(* "ide"; loader.enabled, not set by the user, is still true. *)
C21_Witness ==
    /\ lastCall.op = "resolve"
    /\ lastCall.n = 2
    /\ StartupEntryPath \in lastCall.twice
    /\ LoaderEnabledPath \notin DOMAIN lastCall.latest
    /\ store[StartupEntry].value = Str("ide")
    /\ ~store[LoaderEnabled].setByUser
    /\ store[LoaderEnabled].value = Bool(TRUE)

(* C25: no load, resolve or finalize call turns the setByUser of an Option *)
(* from true to false, and finalize changes no setByUser at all, neither   *)
(* when called by itself nor at the end of a resolve, where it is the only *)
(* step that could touch an Option the folded tree does not address. *)
C25_SetByUserMonotone ==
    [][/\ \A r \in DOMAIN store :
             /\ store[r].setByUser => store'[r].setByUser
             /\ lastCall'.op = "finalize"
                   => store'[r].setByUser = store[r].setByUser
       /\ lastCall'.op = "resolve"
             => \A p \in DOMAIN options \ DOMAIN folded' :
                    store'[options[p]].setByUser
                        = store[options[p]].setByUser]_vars

(* loader.enabled was set by the user, and a resolve that addresses it and *)
(* moves startup.entry away from "ide" has run since. *)
C25_Witness ==
    /\ lastCall.op = "resolve"
    /\ ~lastCall.first
    /\ LoaderEnabledPath \in DOMAIN folded
    /\ store[StartupEntry].value = Str("custom")
    /\ store[LoaderEnabled].setByUser

(* C26: a finalize call changes at most the value of loader.enabled, and   *)
(* only to false: every other Option stays as it is, and so do the default *)
(* and the setByUser of loader.enabled; when loader.enabled.setByUser is   *)
(* true or startup.entry.value is "ide" it changes nothing. *)
C26_FinalizeFrame ==
    [][lastCall'.op = "finalize"
          => /\ \A r \in DOMAIN store \ {LoaderEnabled} : store'[r] = store[r]
             /\ store'[LoaderEnabled]
                    = [store[LoaderEnabled] EXCEPT
                          !.value = store'[LoaderEnabled].value]
             /\ store'[LoaderEnabled].value
                    \in {store[LoaderEnabled].value, Bool(FALSE)}
             /\ (\/ store[LoaderEnabled].setByUser
                 \/ store[StartupEntry].value = Str("ide"))
                    => store' = store
             /\ groups' = groups]_vars

(* finalize has run with startup.entry at "custom" on a loader.enabled the *)
(* user had set to true, which is true still. *)
C26_Witness ==
    /\ lastCall.op = "finalize"
    /\ store[StartupEntry].value = Str("custom")
    /\ store[LoaderEnabled].setByUser
    /\ store[LoaderEnabled].value = Bool(TRUE)

(* C27: after resolve(S), a second resolve(S) would leave every Option     *)
(* with the value and setByUser it has: resolving the tree S folds to once *)
(* more changes nothing. *)
C27_ResolveIdempotent ==
    lastCall.op = "resolve"
        => \A again \in {resolve(options, <<Override(folded)>>, store).store} :
              \A r \in DOMAIN store :
                  /\ again[r].value = store[r].value
                  /\ again[r].setByUser = store[r].setByUser

(* A resolve, not the first call, has folded a tree that sets startup.entry *)
(* to "custom" and addresses loader.enabled, and the derivation has turned  *)
(* loader.enabled off after the walk wrote it. *)
C27_Witness ==
    /\ lastCall.op = "resolve"
    /\ ~lastCall.first
    /\ LoaderEnabledPath \in DOMAIN folded
    /\ StartupEntryPath \in DOMAIN folded
    /\ store[StartupEntry].value = Str("custom")
    /\ store[LoaderEnabled].value = Bool(FALSE)

(* C22: for every Group m = a.merge(b), at every level: the option names   *)
(* and the group names of m are the unions of those of a and b; a name     *)
(* that is a Group in both maps to the merge of the two Groups; a name     *)
(* that is an Option in both maps to the Option of b; a name only one side *)
(* has maps to the child of that side. *)
C22_MergeShape ==
    \A g \in 1..Len(groups) :
        groups[g].from # <<>>
        => LET m == groups[g]
               a == groups[m.from[1]]
               b == groups[m.from[2]]
           IN  /\ DOMAIN m.options = DOMAIN a.options \cup DOMAIN b.options
               /\ DOMAIN m.groups = DOMAIN a.groups \cup DOMAIN b.groups
               /\ \A n \in DOMAIN m.options :
                     m.options[n] = IF n \in DOMAIN b.options
                                    THEN b.options[n]
                                    ELSE a.options[n]
               /\ \A n \in DOMAIN m.groups :
                     IF n \in DOMAIN a.groups \cap DOMAIN b.groups
                     THEN groups[m.groups[n]].from = <<a.groups[n], b.groups[n]>>
                     ELSE m.groups[n] = IF n \in DOMAIN a.groups
                                        THEN a.groups[n]
                                        ELSE b.groups[n]

(* A merge since module load has met a name under which the two sides hold *)
(* different Options and a name only self has; the merge of the module     *)
(* itself met a Group name both sides have and an Option name only other   *)
(* has. *)
C22_Witness ==
    /\ lastCall.op = "merge"
    /\ LET m == groups[lastCall.self]
           a == groups[m.from[1]]
           b == groups[m.from[2]]
       IN  /\ \E n \in DOMAIN a.options \cap DOMAIN b.options :
                 a.options[n] # b.options[n] /\ m.options[n] = b.options[n]
           /\ \E n \in DOMAIN a.options \ DOMAIN b.options :
                 m.options[n] = a.options[n]
    /\ groups[groups[xx].groups["grp1"]].from = <<opt1grp1, opt2grp1>>
    /\ groups[xx].options["opt2"] = groups[opt2].options["opt2"]
    /\ "opt2" \notin DOMAIN groups[opt1].options

(* C23: for every Group m = self.merge(other) and every name that is an    *)
(* Option on one side and a Group on the other, m holds under that name    *)
(* the child of self only, and the merge has emitted a diagnostic for the  *)
(* name; no Group has an Option and a Group of one name. *)
C23_KindMismatchInMerge ==
    \A g \in 1..Len(groups) :
        /\ DOMAIN groups[g].options \cap DOMAIN groups[g].groups = {}
        /\ groups[g].from # <<>>
           => LET self  == groups[groups[g].from[1]]
                  other == groups[groups[g].from[2]]
              IN  \A n \in (DOMAIN self.options \cap DOMAIN other.groups)
                            \cup (DOMAIN self.groups \cap DOMAIN other.options) :
                      /\ n \in DOMAIN self.options
                            => n \notin DOMAIN groups[g].groups
                      /\ n \in DOMAIN self.groups
                            => n \notin DOMAIN groups[g].options
                      /\ (lastCall.op = "merge" /\ lastCall.self = g)
                            => \E i \in 1..Len(logged) : logged[i].name = n

(* The leaves of an override tree that lie at or below a key whose kind    *)
(* does not match the schema: a scalar at a group, or anything below an    *)
(* Option. *)
MismatchedLeaves(given) ==
    {p \in DOMAIN given :
        \/ NodeKind(options, p) = "record"
        \/ \E k \in 1..(Len(p) - 1) : NodeKind(options, SubSeq(p, 1, k)) = "Option"}

(* The Options at or below the mismatched keys of an override tree. *)
UnderMismatch(given) ==
    {options[q] : q \in {r \in DOMAIN options :
        \E p \in MismatchedLeaves(given) : IsPrefix(r, p) \/ IsPrefix(p, r)}}

(* The same for a config handed to Group.load on the Group g: the top      *)
(* keys that are a scalar naming a Group of g or a record naming an Option *)
(* of g, and the Options at or below them. *)
MismatchedKeys(g, config) ==
    {k \in KeysAt(config, <<>>) :
        IF <<k>> \in DOMAIN config
        THEN k \in DOMAIN groups[g].groups
        ELSE k \in DOMAIN groups[g].options}

UnderMismatchedKeys(g, config) ==
    UNION {IF k \in DOMAIN groups[g].options
           THEN {groups[g].options[k]}
           ELSE Reach(groups, groups[g].groups[k]) :
               k \in MismatchedKeys(g, config)}

(* C24: a resolveFromObject, resolve or Group.load that is given entries   *)
(* whose kind does not match the schema returns; every Option at or below  *)
(* such a key keeps its setByUser and its value (but for the value of      *)
(* loader.enabled, which the derivation at the end of a resolve may turn   *)
(* off); and every Option ends as the same call without the mismatched     *)
(* entries leaves it. *)
C24_KindMismatchedOverride ==
    [][/\ lastCall'.op = "resolveFromObject"
          => \A bad \in {MismatchedLeaves(lastCall'.latest)} :
               /\ returned' = Null
               /\ \A r \in UnderMismatch(lastCall'.latest) :
                     store'[r] = store[r]
               /\ store' = resolveFromObjectInternal(options, <<>>,
                               [p \in DOMAIN lastCall'.latest \ bad |->
                                   lastCall'.latest[p]], store)
       /\ lastCall'.op = "resolve"
          => \A bad \in {MismatchedLeaves(folded')} :
               /\ returned' = Null
               /\ \A r \in UnderMismatch(folded') :
                     /\ store'[r].setByUser = store[r].setByUser
                     /\ r # LoaderEnabled => store'[r].value = store[r].value
               /\ store' = finalize(options,
                               resolveFromObjectInternal(options, <<>>,
                                   [p \in DOMAIN folded' \ bad |-> folded'[p]],
                                   store))
       /\ lastCall'.op = "Group.load"
          => \A bad \in {MismatchedKeys(lastCall'.self, lastCall'.latest)} :
               /\ \A r \in UnderMismatchedKeys(lastCall'.self, lastCall'.latest) :
                     store'[r] = store[r]
               /\ store' = groupLoad(groups[lastCall'.self],
                               [p \in {q \in DOMAIN lastCall'.latest :
                                           q[1] \notin bad} |->
                                   lastCall'.latest[p]], store).store]_vars

(* A walk has met a scalar at the group loader beside a valid entry for    *)
(* startup.entry, which is applied; loader.enabled is untouched. *)
C24_Witness ==
    /\ lastCall.op = "resolveFromObject"
    /\ <<"loader">> \in MismatchedLeaves(lastCall.latest)
    /\ LoaderEnabled \in UnderMismatch(lastCall.latest)
    /\ store[StartupEntry].value = Str("custom")
    /\ store[LoaderEnabled].value = Bool(TRUE)

====
